---- MODULE Spec2Model ----
(***************************************************************************)
(* Model of allocation.py: allocation_steps, the GPA-ordered greedy        *)
(* allocation with random fallback, which records one snapshot per         *)
(* student.  A caller (app.py, the tests) invokes it with a DataFrame, a   *)
(* capacity dict and options; the process-wide `random` generator is the   *)
(* only state that outlives a call.                                        *)
(***************************************************************************)
EXTENDS Integers, Sequences, FiniteSets, TLC

\* ---------------------------------------------------------------- bounds
MaxStudents == 2        \* rows of the DataFrame handed to allocation_steps
MaxCap == 1             \* largest seat count of a specialisation
NumLevels == 3          \* levels of the grid on which sampling is explored
RandomUnits == 2        \* random.random() yields multiples of 1 / RandomUnits

\* ------------------------------------------------------- value domains
None == "None"          \* Python None (chosen, assignments values)
NaN == "NaN"            \* a missing cell of a pref column (pd.notna is False)
NoSeed == <<>>          \* seed=None; an explicit seed s is <<s>>
NoValue == <<>>         \* mean, std, pref_weights = None; a value v is <<v>>

\* capacity_dict of the tests, in insertion order (dict iteration order)
SpecOrder == <<"Software", "Mechanical", "EngSci">>
Specs == {SpecOrder[i] : i \in 1..Len(SpecOrder)}

\* gpa values of the rows
Gpas == {8, 9}

\* the (pref1, pref2) cells of a row: the tests' row, its reverse, a sparse
\* row and a row without preferences
PrefRows == {<<"Software", "Mechanical">>, <<"Mechanical", "Software">>,
             <<"Software", NaN>>, <<NaN, NaN>>}

\* the rows of the populations that are allocated twice
RepeatPrefRows == {<<"Software", "Mechanical">>, <<"Software", NaN>>, <<NaN, NaN>>}

\* seed arguments: None and the explicit seeds of a single call / of two calls
Seeds == {NoSeed, <<42>>}
RepeatSeeds == {NoSeed, <<42>>, <<43>>}

\* max_prefs arguments (the tests pass 2)
MaxPrefsChoices == {2}

\* the states of the process-wide generator of module random
RngStates == {0, 1, 2}

VARIABLES
    pc,               \* "idle" | "loop" | "returned" | "raised"
    rng,              \* state of the process-wide random generator
    df,               \* argument: the DataFrame [columns, rows]
    capacity_dict,    \* argument: the caller's capacity dict
    max_prefs,        \* argument
    random_fallback,  \* argument
    seed,             \* argument
    df_sorted,        \* local: rows in processing order
    pref_cols,        \* local: the preference columns respected
    caps,             \* local: working copy of remaining capacities
    assignments,      \* local: id -> spec or None
    snapshots,        \* local, returned: one record per processed row
    k,                \* rows of df_sorted already consumed by the for loop
    repeated,         \* whether the caller has called a second time
    prev_seed,        \* the seed argument of the caller's first call
    prev_snapshots,   \* the list the caller's first call returned
    gpc,              \* generate_random_students: "idle" | "sampling" | "rows"
                      \*   | "returned" | "raised"
    n_students,       \* argument
    specs,            \* argument: the list of specialisations
    n_prefs,          \* argument
    gpa_min,          \* argument, in millionths of a grade point
    gpa_max,          \* argument, in millionths
    mean,             \* argument, then the value used, in millionths
    std,              \* argument, then the value used, in millionths
    sampling_with_replacement,  \* argument
    pref_weights,     \* argument: None or a dict spec -> weight
    allowed_gpas,     \* local: the grid levels, in millionths
    weights,          \* local: the density at each level, then the weights
    total_w,          \* local: sum(weights)
    probs,            \* local: one quotient w / total_w per level
    choices,          \* local: the levels not yet drawn without replacement
    choice_probs,     \* local: their quotients
    gpas,             \* local: the scores drawn so far, in draw order
    rows,             \* local: the records built so far
    generated,        \* the DataFrame returned (rows in sorted order)
    session_snapshots,  \* st.session_state["snapshots"]: absent or a list
    current_step_val, \* st.session_state["current_step_val"]: absent or int
    page              \* the last run of the app script: "ok" | "raised"

\* the variables of generate_random_students
gvars == <<gpc, n_students, specs, n_prefs, gpa_min, gpa_max, mean, std,
           sampling_with_replacement, pref_weights, allowed_gpas, weights,
           total_w, probs, choices, choice_probs, gpas, rows, generated>>

\* the variables of the app's session
uvars == <<session_snapshots, current_step_val, page>>

\* the variables of allocation_steps and its callers, but for rng
avars == <<pc, df, capacity_dict, max_prefs, random_fallback, seed,
           df_sorted, pref_cols, caps, assignments, snapshots, k,
           repeated, prev_seed, prev_snapshots, uvars>>

vars == <<pc, rng, df, capacity_dict, max_prefs, random_fallback, seed,
          df_sorted, pref_cols, caps, assignments, snapshots, k,
          repeated, prev_seed, prev_snapshots, gvars, uvars>>

\* ------------------------------------------------------------- helpers
Range(s) == {s[i] : i \in 1..Len(s)}

Min(a, b) == IF a < b THEN a ELSE b

EmptyMap == [x \in {} |-> None]

\* the i-th row of an input population carries a distinct id
StudentId(i) == 100 + i

\* ------------------------------------------------ module random (library)
\* random.seed(s) that leaves the generator as it was
RandomSeedIgnored(s) == rng

\* random.seed(s): the state becomes a function of s alone
RandomSeed(s) == s % Cardinality(RngStates)

\* random.choice(seq) with the generator in state r
RandomChoice(seq, r) == seq[(r % Len(seq)) + 1]

\* the generator's state after one draw
RandomAdvance(r) == (r + 1) % Cardinality(RngStates)

\* ------------------------------------------------------ allocation_steps
\* a validation that forgets the id column
MissingRequiredGpaOnly(columns) == "gpa" \notin Range(columns)

\* "id" not in df.columns or "gpa" not in df.columns
MissingRequired(columns) ==
    "id" \notin Range(columns) \/ "gpa" \notin Range(columns)

\* _pref_index: int(col_name[4:]) of "prefN" is N; a suffix that is no number
\* raises ValueError inside int() and yields 999
_pref_index(col_name) ==
    CASE col_name = "pref1" -> 1
      [] col_name = "pref2" -> 2
      [] col_name = "pref3" -> 3
      [] OTHER -> 999

\* c.startswith("pref"), over the column names of the frames
IsPrefColumn(c) == c \in {"pref1", "pref2", "pref3", "prefX"}

\* the preference columns left in the order of the frame
UnsortedPrefColumns(cols) == cols

\* sorted(cols, key=_pref_index): a stable insertion sort
RECURSIVE SortedByPrefIndex(_)
SortedByPrefIndex(cols) ==
    IF cols = <<>> THEN <<>>
    ELSE LET rest == SortedByPrefIndex(SubSeq(cols, 1, Len(cols) - 1))
             c == cols[Len(cols)]
             before == SelectSeq(rest, LAMBDA x : _pref_index(x) <= _pref_index(c))
             after == SelectSeq(rest, LAMBDA x : _pref_index(x) > _pref_index(c))
         IN before \o <<c>> \o after

\* pref_cols = sorted([c for c in columns if c.startswith("pref")])[:max_prefs]
PrefCols(columns, mp) ==
    LET found == SortedByPrefIndex(SelectSeq(columns, IsPrefColumn))
    IN SubSeq(found, 1, Min(mp, Len(found)))

\* the frame left in input order
SortValuesUnsorted(recs) == {recs}

\* df.sort_values("gpa", ascending=False): the rows in descending gpa order;
\* the order among equal gpas is whatever the sort yields for this frame
SortValues(recs) ==
    LET n == Len(recs)
        perms == {p \in [1..n -> 1..n] : \A i, j \in 1..n : i # j => p[i] # p[j]}
    IN {[i \in 1..n |-> recs[p[i]]] : p \in
           {q \in perms : \A i \in 1..(n - 1) : recs[q[i]].gpa >= recs[q[i + 1]].gpa}}

\* prefs = [row[c] for c in pref_cols if pd.notna(row[c])]
Prefs(row, cols) ==
    SelectSeq([i \in 1..Len(cols) |-> row[cols[i]]], LAMBDA v : v # NaN)

\* a lookup whose default is one seat
CapsGetDefaultOne(c, spec) == IF spec \in DOMAIN c THEN c[spec] ELSE 1

\* caps.get(spec, 0)
CapsGet(c, spec) == IF spec \in DOMAIN c THEN c[spec] ELSE 0

\* a seat test that admits a full spec (>= 0 for > 0)
HasSeatNonNegative(c, spec) == CapsGet(c, spec) >= 0

\* if caps.get(spec, 0) > 0
HasSeat(c, spec) == CapsGet(c, spec) > 0

\* a loop that never tries the first preference
PrimaryChoiceSkipFirst(prefs, c) ==
    LET later == IF prefs = <<>> THEN <<>>
                ELSE SelectSeq(Tail(prefs), LAMBDA x : CapsGet(c, x) > 0)
    IN IF later # <<>> THEN Head(later) ELSE None

\* a loop that keeps the last preferred spec with remaining seats (no break)
RECURSIVE PrimaryChoiceLast(_, _)
PrimaryChoiceLast(prefs, c) ==
    IF prefs = <<>> THEN None
    ELSE IF HasSeat(c, prefs[Len(prefs)]) THEN prefs[Len(prefs)]
    ELSE PrimaryChoiceLast(SubSeq(prefs, 1, Len(prefs) - 1), c)

\* the for loop over prefs: the first preferred spec with remaining seats
RECURSIVE PrimaryChoice(_, _)
PrimaryChoice(prefs, c) ==
    IF prefs = <<>> THEN None
    ELSE IF HasSeat(c, Head(prefs)) THEN Head(prefs)
    ELSE PrimaryChoice(Tail(prefs), c)

\* a loop that takes the seat before testing it: a student without an open
\* preference still decrements the first preferred spec
AfterPrimaryEager(c, prefs) ==
    IF PrimaryChoice(prefs, c) # None
    THEN [c EXCEPT ![PrimaryChoice(prefs, c)] = @ - 1]
    ELSE IF prefs # <<>> /\ Head(prefs) \in DOMAIN c
         THEN [c EXCEPT ![Head(prefs)] = @ - 1]
         ELSE c

\* caps after the for loop over prefs: caps[spec] -= 1 for the spec it chose
AfterPrimary(c, prefs) ==
    IF PrimaryChoice(prefs, c) # None
    THEN [c EXCEPT ![PrimaryChoice(prefs, c)] = @ - 1]
    ELSE c

\* a filter that lets no spec through
AvailableSpecsNone(c, prefs) == <<>>

\* a filter with the membership test inverted (spec in prefs)
AvailableSpecsWithinPrefs(c, prefs) ==
    SelectSeq(SpecOrder, LAMBDA s : s \in DOMAIN c /\ c[s] > 0 /\ s \in Range(prefs))

\* a filter that takes every non-zero remaining count for a free seat
AvailableSpecsNonZero(c, prefs) ==
    SelectSeq(SpecOrder, LAMBDA s : s \in DOMAIN c /\ c[s] # 0 /\ s \notin Range(prefs))

\* available_specs: specs with remaining > 0 not in prefs, in dict order
AvailableSpecs(c, prefs) ==
    SelectSeq(SpecOrder, LAMBDA s : s \in DOMAIN c /\ c[s] > 0 /\ s \notin Range(prefs))

\* chosen is None and random_fallback, and available_specs is not empty
FallbackApplies(prefs, c, rf) ==
    PrimaryChoice(prefs, c) = None /\ rf /\ AvailableSpecs(c, prefs) # <<>>

\* chosen after the primary loop and the optional random fallback
Chosen(prefs, c, rf, r) ==
    IF FallbackApplies(prefs, c, rf)
    THEN RandomChoice(AvailableSpecs(c, prefs), r)
    ELSE PrimaryChoice(prefs, c)

\* a fallback branch that forgets to take the seat
AfterFallbackNoDecrement(c, chosen) == c

\* caps[chosen] -= 1 of the fallback branch
AfterFallback(c, chosen) == [c EXCEPT ![chosen] = @ - 1]

\* caps once the row is processed
CapsAfter(prefs, c, rf, r) ==
    IF FallbackApplies(prefs, c, rf)
    THEN AfterFallback(AfterPrimary(c, prefs), Chosen(prefs, c, rf, r))
    ELSE AfterPrimary(c, prefs)

\* an assignment map that records allocated students only
RecordAssignmentIfChosen(a, student_id, chosen) ==
    IF chosen = None THEN a
    ELSE [x \in DOMAIN a \cup {student_id} |-> IF x = student_id THEN chosen ELSE a[x]]

\* assignments[student_id] = chosen
RecordAssignment(a, student_id, chosen) ==
    [x \in DOMAIN a \cup {student_id} |-> IF x = student_id THEN chosen ELSE a[x]]

\* a snapshot that records the assignment of its own student only
SnapshotOfStepOnly(row, prefs, chosen, c, a) ==
    [student_id |-> row.id, gpa |-> row.gpa, prefs |-> prefs, chosen |-> chosen,
     remaining |-> c, assignments |-> [x \in {row.id} |-> chosen]]

\* the dict appended to snapshots
Snapshot(row, prefs, chosen, c, a) ==
    [student_id |-> row.id, gpa |-> row.gpa, prefs |-> prefs, chosen |-> chosen,
     remaining |-> c, assignments |-> a]

\* snapshots whose remaining and assignments are the live dicts themselves:
\* every stored snapshot shows the dicts as the current iteration left them
StoredByReference(snaps, c, a) ==
    [i \in DOMAIN snaps |-> [snaps[i] EXCEPT !.remaining = c, !.assignments = a]]

\* the snapshots stored so far, once the current iteration has changed caps
\* and assignments to c and a: caps.copy() and assignments.copy() stored
\* dicts of their own (of ints and strings), which no later statement reaches
Stored(snaps, c, a) == snaps

\* the caller's dict when caps is the dict itself (caps = capacity_dict):
\* every caps[spec] -= 1 is a write to the caller's dict
CapacityDictShared(c, working) == working

\* the caller's dict once the current iteration has changed caps to
\* `working`: caps = capacity_dict.copy() is a dict of its own, and no
\* statement writes to capacity_dict
CapacityDictAfter(c, working) == c

\* ------------------------------------------------ generate_random_students
\* Scores are integers counting millionths of a grade point, so that
\* round(x, 6) is a rounding to an integer and round(x, 3) a rounding to a
\* multiple of 1000.

\* seq[1] + ... + seq[j]
RECURSIVE SumTo(_, _)
SumTo(seq, j) == IF j = 0 THEN 0 ELSE seq[j] + SumTo(seq, j - 1)

\* sum(seq) of a list of integers
Sum(seq) == SumTo(seq, Len(seq))

\* the quotient q of num / den with den > 0, rounded to the nearest integer
\* (a quotient exactly half way goes to the even neighbour)
RoundDiv(num, den) ==
    LET q == num \div den
        r == num % den
    IN IF 2 * r < den THEN q
       ELSE IF 2 * r > den THEN q + 1
       ELSE IF q % 2 = 0 THEN q ELSE q + 1

\* round(gpa_min + i * step, 6) with step = (gpa_max - gpa_min) / (levels - 1)
GridLevel(lo, hi, levels, i) ==
    RoundDiv((levels - 1) * lo + i * (hi - lo), levels - 1)

\* allowed_gpas: the levels i = 0..levels-1 that lie within [gpa_min, gpa_max]
AllowedGpas(lo, hi, levels) ==
    SelectSeq([j \in 1..levels |-> GridLevel(lo, hi, levels, j - 1)],
              LAMBDA g : lo <= g /\ g <= hi)

\* 6-decimal values ending in ...500 whose nearest double lies below them:
\* round(0.2895, 3) is 0.289
DoubleBelow == {289500}

\* round(g, 3) of a 6-decimal value g: the nearest multiple of 1000; a value
\* half way goes where its double lies, and to the even neighbour when the
\* double is not known to lie below
RoundMilli(g) ==
    LET q == g \div 1000
        r == g % 1000
    IN IF r < 500 THEN q * 1000
       ELSE IF r > 500 THEN (q + 1) * 1000
       ELSE IF g \in DoubleBelow \/ q % 2 = 0 THEN q * 1000 ELSE (q + 1) * 1000

\* mean = (gpa_min + gpa_max) / 2.0 when mean is None
MeanUsed(m, lo, hi) == IF m = NoValue THEN RoundDiv(lo + hi, 2) ELSE m[1]

\* std = (gpa_max - gpa_min) / 6.0 when std is None
StdUsed(sd, lo, hi) == IF sd = NoValue THEN RoundDiv(hi - lo, 6) ELSE sd[1]

\* 100 * exp(-0.5 * z^2), cut to an integer, at z = h / 2: the density in
\* hundredths of its peak; it underflows to 0 far from the mean
ExpTerm(h) ==
    CASE h = 0 -> 100
      [] h = 1 -> 88
      [] h = 2 -> 60
      [] h = 3 -> 32
      [] h = 4 -> 13
      [] h = 5 -> 4
      [] h = 6 -> 1
      [] OTHER -> 0

\* normal_pdf(x, mu, sigma): 0.0 for sigma <= 0, else coef * exp_term; the
\* factor coef is common to all levels and cancels in w / total_w
NormalPdf(x, mu, sigma) ==
    IF sigma <= 0 THEN 0
    ELSE ExpTerm((2 * (IF x >= mu THEN x - mu ELSE mu - x)) \div sigma)

\* weights = [normal_pdf(g, mean, std) for g in allowed_gpas]
Weights(levels, mu, sigma) == [j \in 1..Len(levels) |-> NormalPdf(levels[j], mu, sigma)]

\* weights after the fallback: all 1.0 when sum(weights) <= 0
WeightsUsed(w) == IF Sum(w) <= 0 THEN [j \in 1..Len(w) |-> 1] ELSE w

\* a fallback that keeps the total of the density: w is the density, u the
\* weights after the fallback
TotalStale(w, u) == Sum(w)

\* total_w = sum(weights), computed again after the fallback
TotalW(w, u) == Sum(u)

\* probs = [w / total_w for w in weights]; a quotient is kept as numerator
\* and denominator
Probs(u, t) == [j \in 1..Len(u) |-> [num |-> u[j], den |-> t]]

\* random.random() yields d / RandomUnits for a d of Draws (0.0 included, 1.0
\* excluded)
Draws == 0..(RandomUnits - 1)

\* random.uniform(a, b) with random.random() = d / RandomUnits, rounded to 3
\* decimals
RandomUniform(a, b, d) == RoundMilli(a + RoundDiv((b - a) * d, RandomUnits))

\* the numerators of the first j quotients of p, added up
RECURSIVE PrefixNum(_, _)
PrefixNum(p, j) == IF j = 0 THEN 0 ELSE p[j].num + PrefixNum(p, j - 1)

\* one draw of random.choices that ignores the weights
ChoicesIndexUnweighted(p, d) == 1 + ((d * Len(p)) \div RandomUnits)

\* one draw of random.choices(population, weights=p) with random.random() =
\* d / RandomUnits: bisect finds the first position whose cumulative weight
\* exceeds r * total, the last position at most (positions count from 1)
ChoicesIndex(p, d) ==
    LET total == PrefixNum(p, Len(p))
        hits == {j \in 1..Len(p) : PrefixNum(p, j) * RandomUnits > d * total}
    IN IF hits = {} THEN Len(p) ELSE CHOOSE j \in hits : \A i \in hits : j <= i

\* weighted_pop(probs_list) with r = d / RandomUnits: the first position
\* with r <= cum, else the last one; the quotients share their denominator
WeightedPop(p, d) ==
    LET hits == {j \in 1..Len(p) : d * p[j].den <= PrefixNum(p, j) * RandomUnits}
    IN IF hits = {} THEN Len(p) ELSE CHOOSE j \in hits : \A i \in hits : j <= i

\* list.pop(idx)
Remove(seq, idx) == SubSeq(seq, 1, idx - 1) \o SubSeq(seq, idx + 1, Len(seq))

\* choice_probs after s = sum(choice_probs): each divided by s when s > 0
Renormalised(p) ==
    IF PrefixNum(p, Len(p)) > 0
    THEN [j \in 1..Len(p) |-> [num |-> p[j].num, den |-> PrefixNum(p, Len(p))]]
    ELSE p

\* random.sample(pool, k): any k members of pool in any order
RandomSample(pool, cnt) ==
    {q \in [1..cnt -> Range(pool)] : \A i, j \in 1..cnt : i # j => q[i] # q[j]}

\* probs = [float(pref_weights.get(s, 0.0)) for s in choices]
PrefProbs(sp, pw) == [j \in 1..Len(sp) |-> IF sp[j] \in DOMAIN pw THEN pw[sp[j]] ELSE 0]

\* weighted_pop_index(probs_list): the positions it can return; with s <= 0
\* random.randrange(len), else the first position with r <= cum where cum
\* adds p / s, else the last position
WeightedPopIndex(pl) ==
    IF Sum(pl) <= 0 THEN 1..Len(pl)
    ELSE {LET hits == {j \in 1..Len(pl) :
                          d * Sum(pl) <= SumTo(pl, j) * RandomUnits}
          IN IF hits = {} THEN Len(pl) ELSE CHOOSE j \in hits : \A i \in hits : j <= i
          : d \in Draws}

\* the lists sel the loop over min(n_prefs, len(choices_copy)) can build
RECURSIVE WeightedSelections(_, _, _)
WeightedSelections(ch, pl, cnt) ==
    IF cnt = 0 THEN {<<>>}
    ELSE UNION {{<<ch[idx]>> \o rest :
                    rest \in WeightedSelections(Remove(ch, idx), Remove(pl, idx), cnt - 1)} :
                idx \in WeightedPopIndex(pl)}

\* a record whose id is the loop index itself
RowIdFromZero(i, gpa, prefs) == [id |-> i, gpa |-> gpa, prefs |-> prefs]

\* row = {"id": i + 1, "gpa": gpa, "pref1": ..., "prefN": ...} of loop index
\* i; the columns pref1..prefN are kept as the list prefs
Row(i, gpa, prefs) == [id |-> i + 1, gpa |-> gpa, prefs |-> prefs]

\* n_prefs = min(n_prefs, len(specs))
PrefCount(np, sp) == Min(np, Len(sp))

\* a preference list that may name a specialisation twice
PrefListsRepeating(sp, np, pw) == [1..np -> Range(sp)]

\* prefs of one student, np being min(n_prefs, len(specs)): random.sample
\* without weights or when the weights sum to <= 0, else the weighted
\* selection, filled up from the remaining specs should it be shorter
PrefLists(sp, np, pw) ==
    IF pw = NoValue THEN RandomSample(sp, np)
    ELSE IF Sum(PrefProbs(sp, pw[1])) <= 0 THEN RandomSample(sp, np)
    ELSE UNION {{sel \o ext :
                    ext \in RandomSample(SelectSeq(sp, LAMBDA c : c \notin Range(sel)),
                                         np - Len(sel))} :
                sel \in WeightedSelections(sp, PrefProbs(sp, pw[1]), Min(np, Len(sp)))}

\* ------------------------------------------------- app.py, steps 3 and 4
\* The script runs from top to bottom on every interaction; session_state
\* outlives the runs.

\* the values st.slider("Step", min_value=1, max_value=total_steps, ...) can
\* return: the position the widget holds, which lies within its bounds
SliderValues(total_steps) == 1..total_steps

\* if slider_val != current_step_val: current_step_val = slider_val
AfterSlider(cur, slider_val) == IF slider_val # cur THEN slider_val ELSE cur

\* "Previous step": if current_step_val > 1: current_step_val -= 1
AfterPrevious(cur) == IF cur > 1 THEN cur - 1 ELSE cur

\* "Next step": if current_step_val < total_steps: current_step_val += 1
AfterNext(cur, total_steps) == IF cur < total_steps THEN cur + 1 ELSE cur

\* "Skip to final result": current_step_val = total_steps
AfterSkip(total_steps) == total_steps

\* "Back to start": current_step_val = 1
AfterBack == 1

\* the four st.button calls in a run in which `clicked` is the button that
\* returns True ("none": no button does)
AfterButtons(clicked, cur, total_steps) ==
    CASE clicked = "Previous step" -> AfterPrevious(cur)
      [] clicked = "Next step" -> AfterNext(cur, total_steps)
      [] clicked = "Skip to final result" -> AfterSkip(total_steps)
      [] clicked = "Back to start" -> AfterBack
      [] OTHER -> cur

\* snap = snapshots[current_step_val - 1]: a list of total_steps entries
\* has the indices -total_steps .. total_steps - 1, else IndexError
LookupValid(cur, total_steps) ==
    -total_steps <= cur - 1 /\ cur - 1 < total_steps

\* ------------------------------------------------------------- inputs
Columns(hasId, hasGpa) ==
    (IF hasId THEN <<"id">> ELSE <<>>) \o (IF hasGpa THEN <<"gpa">> ELSE <<>>)
        \o <<"pref1", "pref2">>

\* DataFrames of n rows with both required columns
Populations(n, prefRows) ==
    {[columns |-> Columns(TRUE, TRUE),
      rows |-> [i \in 1..n |-> [id |-> StudentId(i), gpa |-> f[i][1],
                                pref1 |-> f[i][2][1], pref2 |-> f[i][2][2]]]] :
        f \in [1..n -> Gpas \X prefRows]}

\* DataFrames of n rows of the tests that lack the id column, the gpa column
\* or both
BadPopulations(n) ==
    {[columns |-> Columns(FALSE, TRUE),
      rows |-> [i \in 1..n |-> [gpa |-> 9, pref1 |-> "Software",
                                pref2 |-> "Mechanical"]]],
     [columns |-> Columns(TRUE, FALSE),
      rows |-> [i \in 1..n |-> [id |-> StudentId(i), pref1 |-> "Software",
                                pref2 |-> "Mechanical"]]],
     [columns |-> Columns(FALSE, FALSE),
      rows |-> [i \in 1..n |-> [pref1 |-> "Software", pref2 |-> "Mechanical"]]]}

Capacities == [Specs -> 0..MaxCap]

\* the two preference columns of an uploaded file, in file order: ranks 1 and
\* 2, the same swapped, a file without rank 2, a file with a column whose
\* suffix is no number
PrefLayouts == {<<"pref1", "pref2">>, <<"pref2", "pref1">>,
                <<"pref1", "pref3">>, <<"pref1", "prefX">>}

\* the cells of a row under the two preference columns
LayoutCells == {<<"Software", "Mechanical">>, <<"Software", NaN>>,
                <<NaN, "Mechanical">>, <<NaN, NaN>>}

\* max_prefs arguments of the calls on uploaded files
LayoutMaxPrefs == {1, 2}

\* DataFrames of n rows whose preference columns are those of layout
LayoutPopulations(n, layout) ==
    {[columns |-> <<"id", "gpa">> \o layout,
      rows |-> [i \in 1..n |->
                  [c \in {"id", "gpa", layout[1], layout[2]} |->
                      CASE c = "id" -> StudentId(i)
                        [] c = "gpa" -> f[i][1]
                        [] c = layout[1] -> f[i][2][1]
                        [] OTHER -> f[i][2][2]]]] :
        f \in [1..n -> Gpas \X LayoutCells]}

\* rows that name a category that is no key of the capacity dict
UnknownPrefRows == {<<"Unknown", "Software">>, <<"Software", "Unknown">>,
                    <<"Mechanical", NaN>>, <<"Unknown", NaN>>}

\* a capacity below zero (allocation_steps does not validate the dict)
NegativeSeats == {-1}

\* capacity dicts that were not validated
UncheckedCapacities == [Specs -> NegativeSeats \cup 0..MaxCap]

\* range(64): the levels of the grid
GridLevels == 64

\* (gpa_min, gpa_max) in millionths: the tests' range, the app's default,
\* the function's default, a minimum typed with five decimals, an empty
\* range and an inverted one
GridRanges == {<<0, 9000000>>, <<750000, 9000000>>, <<4000000, 9000000>>,
               <<3910, 9000000>>, <<5000000, 5000000>>, <<9000000, 4000000>>}

\* the ranges of the generation on a grid of NumLevels levels
SampleRanges == {<<0, 9000000>>, <<5000000, 5000000>>, <<9000000, 4000000>>}

\* one student on the grid of 64 levels: the default density, std = 0, and
\* a density of std 0.01 centred on one of the levels
GridInputs ==
    UNION {{[n |-> 1, sp |-> <<"Software">>, np |-> 5, lo |-> r[1], hi |-> r[2],
             m |-> ms[1], sd |-> ms[2], wr |-> wr, pw |-> NoValue] :
               wr \in BOOLEAN,
               ms \in {<<NoValue, NoValue>>, <<NoValue, <<0>>>>}
                        \cup {<<<<GridLevel(r[1], r[2], GridLevels, i)>>, <<10000>>>> :
                                 i \in 0..(GridLevels - 1)}} :
           r \in GridRanges}

\* up to one student more than levels, one specialisation: the default
\* density, the tests' density of std 1e-6 at 0.0, and std = 0
ScoreInputs ==
    {[n |-> n, sp |-> <<"Software">>, np |-> 5, lo |-> r[1], hi |-> r[2],
      m |-> ms[1], sd |-> ms[2], wr |-> wr, pw |-> NoValue] :
        n \in 1..(NumLevels + 1), r \in SampleRanges, wr \in BOOLEAN,
        ms \in {<<NoValue, NoValue>>, <<<<0>>, <<1>>>>, <<NoValue, <<0>>>>}}

\* pref_weights arguments: none, all zero, a dict with a zero weight and a
\* dict that lacks two specs and holds a key that is no spec
PrefWeightChoices ==
    {NoValue,
     <<[x \in Specs |-> 0]>>,
     <<[x \in Specs |-> CASE x = "Software" -> 2 [] x = "Mechanical" -> 1 [] OTHER -> 0]>>,
     <<[x \in {"Mechanical", "Civil"} |-> 1]>>}

\* few students with preferences over the three specs
PrefInputs ==
    {[n |-> n, sp |-> SpecOrder, np |-> np, lo |-> 0, hi |-> 9000000,
      m |-> NoValue, sd |-> NoValue, wr |-> TRUE, pw |-> pw] :
        n \in 1..MaxStudents, np \in {2, 5}, pw \in PrefWeightChoices}

\* the files uploaded to the app: a header line alone or rows that all
\* prefer Software to Mechanical
AppPopulations ==
    UNION {Populations(n, {<<"Software", "Mechanical">>}) : n \in 0..MaxStudents}

\* the seat counts entered in the app: the same for every specialisation
AppCapacities == {[x \in Specs |-> c] : c \in 0..MaxCap}

\* capacities of the calls on uploaded files
LayoutCapacities == {c \in Capacities : c["EngSci"] = MaxCap}

\* ------------------------------------------------------------- actions
Init ==
    /\ pc = "idle"
    /\ rng \in RngStates
    /\ df = [columns |-> <<>>, rows |-> <<>>]
    /\ capacity_dict = EmptyMap
    /\ max_prefs = 5
    /\ random_fallback = TRUE
    /\ seed = NoSeed
    /\ df_sorted = <<>>
    /\ pref_cols = <<>>
    /\ caps = EmptyMap
    /\ assignments = EmptyMap
    /\ snapshots = <<>>
    /\ k = 0
    /\ repeated = FALSE
    /\ prev_seed = NoSeed
    /\ prev_snapshots = <<>>
    /\ gpc = "idle"
    /\ n_students = 0
    /\ specs = <<>>
    /\ n_prefs = 5
    /\ gpa_min = 4000000
    /\ gpa_max = 9000000
    /\ mean = NoValue
    /\ std = NoValue
    /\ sampling_with_replacement = TRUE
    /\ pref_weights = NoValue
    /\ allowed_gpas = <<>>
    /\ weights = <<>>
    /\ total_w = 0
    /\ probs = <<>>
    /\ choices = <<>>
    /\ choice_probs = <<>>
    /\ gpas = <<>>
    /\ rows = <<>>
    /\ generated = <<>>
    /\ session_snapshots = NoValue
    /\ current_step_val = NoValue
    /\ page = "ok"

\* allocation_steps(d, c, mp, rf, s) up to the for loop: seeding, validation,
\* sort (yielding the order `sorted`), working copies, pref_cols
Enter(d, c, mp, rf, s, sorted) ==
    /\ df' = d
    /\ capacity_dict' = c
    /\ max_prefs' = mp
    /\ random_fallback' = rf
    /\ seed' = s
    /\ rng' = IF s # NoSeed THEN RandomSeed(s[1]) ELSE rng
    /\ k' = 0
    /\ assignments' = EmptyMap
    /\ snapshots' = <<>>
    /\ UNCHANGED <<gvars, uvars>>
    /\ IF MissingRequired(d.columns)
       THEN /\ pc' = "raised"
            /\ df_sorted' = <<>>
            /\ caps' = EmptyMap
            /\ pref_cols' = <<>>
       ELSE /\ pc' = "loop"
            /\ df_sorted' = sorted
            /\ caps' = c
            /\ pref_cols' = PrefCols(d.columns, mp)

\* a caller invokes allocation_steps
CallWith(prefRows, fallbacks, seeds) ==
    /\ pc = "idle"
    /\ \E n \in 0..MaxStudents, c \in Capacities, mp \in MaxPrefsChoices,
          rf \in fallbacks, s \in seeds :
          \E d \in Populations(n, prefRows) \cup BadPopulations(n) :
             \E sorted \in (IF MissingRequired(d.columns) THEN {<<>>}
                             ELSE SortValues(d.rows)) :
                Enter(d, c, mp, rf, s, sorted)
    /\ UNCHANGED <<repeated, prev_seed, prev_snapshots>>

Call == CallWith(PrefRows, BOOLEAN, Seeds)

\* a caller invokes allocation_steps on one of frames
CallFrom(frames, capacities, maxPrefs, fallbacks, seeds) ==
    /\ pc = "idle"
    /\ \E d \in frames, c \in capacities, mp \in maxPrefs,
          rf \in fallbacks, s \in seeds :
          \E sorted \in SortValues(d.rows) : Enter(d, c, mp, rf, s, sorted)
    /\ UNCHANGED <<repeated, prev_seed, prev_snapshots>>

\* a caller allocates an uploaded file
CallUploaded ==
    CallFrom(UNION {LayoutPopulations(n, l) : n \in 0..MaxStudents, l \in PrefLayouts},
             LayoutCapacities, LayoutMaxPrefs, {TRUE}, {<<42>>})

CallRepeatable == CallWith(RepeatPrefRows, {TRUE}, RepeatSeeds)

\* the caller keeps the returned list and invokes allocation_steps once more
\* with the same frame, capacities and options and a seed of its choice; the
\* sort of the same frame yields the same order
CallAgain ==
    /\ pc = "returned"
    /\ ~repeated
    /\ repeated' = TRUE
    /\ prev_seed' = seed
    /\ prev_snapshots' = snapshots
    /\ \E s \in RepeatSeeds :
          Enter(df, capacity_dict, max_prefs, random_fallback, s, df_sorted)

\* one iteration of the for loop over df_sorted
Step ==
    /\ pc = "loop"
    /\ k < Len(df_sorted)
    /\ LET row == df_sorted[k + 1]
           prefs == Prefs(row, pref_cols)
           chosen == Chosen(prefs, caps, random_fallback, rng)
           caps1 == CapsAfter(prefs, caps, random_fallback, rng)
           assignments1 == RecordAssignment(assignments, row.id, chosen)
       IN /\ rng' = IF FallbackApplies(prefs, caps, random_fallback)
                    THEN RandomAdvance(rng) ELSE rng
          /\ caps' = caps1
          /\ capacity_dict' = CapacityDictAfter(capacity_dict, caps1)
          /\ assignments' = assignments1
          /\ snapshots' = Append(Stored(snapshots, caps1, assignments1),
                                 Snapshot(row, prefs, chosen, caps1, assignments1))
    /\ k' = k + 1
    /\ UNCHANGED <<pc, df, max_prefs, random_fallback, seed,
                   df_sorted, pref_cols, repeated, prev_seed, prev_snapshots>>
    /\ UNCHANGED <<gvars, uvars>>

\* return snapshots
Return ==
    /\ pc = "loop"
    /\ k = Len(df_sorted)
    /\ pc' = "returned"
    /\ UNCHANGED <<rng, df, capacity_dict, max_prefs, random_fallback, seed,
                   df_sorted, pref_cols, caps, assignments, snapshots, k,
                   repeated, prev_seed, prev_snapshots>>
    /\ UNCHANGED <<gvars, uvars>>

Next == Call \/ Step \/ Return

Spec == Init /\ [][Next]_vars

\* a caller that allocates the same population twice
NextRepeat == CallRepeatable \/ Step \/ Return \/ CallAgain

SpecRepeat == Init /\ [][NextRepeat]_vars

\* a caller hands over preferences and capacities it did not validate
CallUnchecked ==
    CallFrom(UNION {Populations(n, UnknownPrefRows) : n \in 0..MaxStudents},
             UncheckedCapacities, MaxPrefsChoices, BOOLEAN, {<<42>>})

NextUnchecked == CallUnchecked \/ Step \/ Return

SpecUnchecked == Init /\ [][NextUnchecked]_vars

\* generate_random_students(a.n, a.sp, a.np, a.lo, a.hi, None, a.m, a.sd,
\* a.wr, a.pw) up to the sampling of the scores, on a grid of `levels` levels:
\* grid, weights and probs; w / total_w raises ZeroDivisionError for a zero
\* total_w; an empty grid is replaced by values of random.uniform
GenEnter(a, levels) ==
    /\ n_students' = a.n
    /\ specs' = a.sp
    /\ n_prefs' = a.np
    /\ gpa_min' = a.lo
    /\ gpa_max' = a.hi
    /\ mean' = MeanUsed(a.m, a.lo, a.hi)
    /\ std' = StdUsed(a.sd, a.lo, a.hi)
    /\ sampling_with_replacement' = a.wr
    /\ pref_weights' = a.pw
    /\ gpas' = <<>>
    /\ rows' = <<>>
    /\ generated' = <<>>
    /\ \E grid \in {AllowedGpas(a.lo, a.hi, levels)} :
          /\ weights' = WeightsUsed(Weights(grid, mean', std'))
          /\ total_w' = TotalW(Weights(grid, mean', std'), weights')
          /\ IF total_w' = 0 /\ weights' # <<>>
             THEN /\ gpc' = "raised"
                  /\ probs' = <<>>
                  /\ allowed_gpas' = grid
                  /\ choices' = <<>>
                  /\ choice_probs' = <<>>
             ELSE /\ gpc' = "sampling"
                  /\ probs' = Probs(weights', total_w')
                  /\ \E ds \in [1..(IF a.n > 1 THEN a.n ELSE 1) -> Draws] :
                        allowed_gpas' =
                           IF grid = <<>>
                           THEN [i \in DOMAIN ds |-> RandomUniform(a.lo, a.hi, ds[i])]
                           ELSE grid
                  /\ choices' = IF a.wr THEN <<>> ELSE allowed_gpas'
                  /\ choice_probs' = IF a.wr THEN <<>> ELSE probs'
    /\ UNCHANGED <<rng, avars>>

\* a caller generates a population on the grid of 64 levels
GenerateOnGrid ==
    /\ gpc = "idle"
    /\ \E a \in GridInputs : GenEnter(a, GridLevels)

\* a caller generates a population on a grid of NumLevels levels
GenerateScaled ==
    /\ gpc = "idle"
    /\ \E a \in ScoreInputs \cup PrefInputs : GenEnter(a, NumLevels)

\* gpas = random.choices(allowed_gpas, weights=probs, k=n_students), which
\* raises ValueError when the weights do not match the population or their
\* total is not positive
SampleWithReplacement ==
    /\ gpc = "sampling"
    /\ sampling_with_replacement
    /\ IF Len(probs) # Len(allowed_gpas) \/ PrefixNum(probs, Len(probs)) <= 0
       THEN gpc' = "raised" /\ gpas' = gpas
       ELSE /\ gpc' = "rows"
            /\ \E ds \in [1..n_students -> Draws] :
                  gpas' = [i \in 1..n_students |-> allowed_gpas[ChoicesIndex(probs, ds[i])]]
    /\ UNCHANGED <<rng, avars, n_students, specs, n_prefs, gpa_min, gpa_max, mean,
                   std, sampling_with_replacement, pref_weights, allowed_gpas,
                   weights, total_w, probs, choices, choice_probs, rows, generated>>

\* one iteration of the loop over min(n_students, len(choices)): the drawn
\* level and its quotient are popped; on an empty choice_probs weighted_pop
\* returns -1 and choice_probs.pop(-1) raises IndexError
PopWithoutReplacement ==
    /\ gpc = "sampling"
    /\ ~sampling_with_replacement
    /\ Len(gpas) < Min(n_students, Len(allowed_gpas))
    /\ IF choice_probs = <<>>
       THEN /\ gpc' = "raised"
            /\ gpas' = Append(gpas, choices[Len(choices)])
            /\ choices' = Remove(choices, Len(choices))
            /\ choice_probs' = choice_probs
       ELSE \E d \in Draws :
              LET idx == WeightedPop(choice_probs, d)
              IN /\ gpc' = gpc
                 /\ gpas' = Append(gpas, choices[idx])
                 /\ choices' = Remove(choices, idx)
                 /\ choice_probs' = Renormalised(Remove(choice_probs, idx))
    /\ UNCHANGED <<rng, avars, n_students, specs, n_prefs, gpa_min, gpa_max, mean,
                   std, sampling_with_replacement, pref_weights, allowed_gpas,
                   weights, total_w, probs, rows, generated>>

\* after the loop: if len(gpas) < n_students, the rest is drawn by
\* random.choices(allowed_gpas, weights=probs, k=n_students - len(gpas))
FillExtras ==
    /\ gpc = "sampling"
    /\ ~sampling_with_replacement
    /\ Len(gpas) = Min(n_students, Len(allowed_gpas))
    /\ gpc' = "rows"
    /\ \E ds \in [1..(n_students - Len(gpas)) -> Draws] :
          gpas' = gpas \o [i \in DOMAIN ds |-> allowed_gpas[ChoicesIndex(probs, ds[i])]]
    /\ UNCHANGED <<rng, avars, n_students, specs, n_prefs, gpa_min, gpa_max, mean,
                   std, sampling_with_replacement, pref_weights, allowed_gpas,
                   weights, total_w, probs, choices, choice_probs, rows, generated>>

\* one iteration of the loop over range(n_students): the record of student
\* i + 1
MakeRow ==
    /\ gpc = "rows"
    /\ Len(rows) < n_students
    /\ \E prefs \in PrefLists(specs, PrefCount(n_prefs, specs), pref_weights) :
          rows' = Append(rows, Row(Len(rows), RoundMilli(gpas[Len(rows) + 1]), prefs))
    /\ UNCHANGED <<rng, avars, gpc, n_students, specs, n_prefs, gpa_min, gpa_max,
                   mean, std, sampling_with_replacement, pref_weights,
                   allowed_gpas, weights, total_w, probs, choices, choice_probs, gpas, generated>>

\* df = pd.DataFrame(rows), sorted by gpa descending, is returned; the draws
\* have left the process-wide generator in some state
GenReturn ==
    /\ gpc = "rows"
    /\ Len(rows) = n_students
    /\ gpc' = "returned"
    /\ generated' \in SortValues(rows)
    /\ rng' \in RngStates
    /\ UNCHANGED <<avars, n_students, specs, n_prefs, gpa_min, gpa_max, mean, std,
                   sampling_with_replacement, pref_weights, allowed_gpas, weights,
                   total_w, probs, choices, choice_probs, gpas, rows>>

\* generation on the grid of 64 levels
NextGrid ==
    GenerateOnGrid \/ SampleWithReplacement \/ PopWithoutReplacement
        \/ FillExtras \/ MakeRow \/ GenReturn

SpecGrid == Init /\ [][NextGrid]_vars

\* generation on a grid of NumLevels levels
NextGenerate ==
    GenerateScaled \/ SampleWithReplacement \/ PopWithoutReplacement
        \/ FillExtras \/ MakeRow \/ GenReturn

SpecGenerate == Init /\ [][NextGenerate]_vars

\* a caller that allocates uploaded files
NextUploaded == CallUploaded \/ Step \/ Return

SpecUploaded == Init /\ [][NextUploaded]_vars

\* "Run simulator" is clicked: the script calls allocation_steps with
\* max_prefs=5, the checkbox and the seed of the number input
RunClicked ==
    CallFrom(AppPopulations, AppCapacities, {5}, BOOLEAN, {<<123>>})

\* step 4 of the script once session_state holds snapshots, on a run in
\* which the slider returns slider_val and then the button `clicked` is
\* handled: the slider is created (st.slider raises when there is no value
\* from 1 to total_steps), the step is updated and the snapshot looked up
Visualise(cur, total_steps, clicked) ==
    IF SliderValues(total_steps) = {}
    THEN /\ current_step_val' = <<cur>>
         /\ page' = "raised"
    ELSE \E slider_val \in SliderValues(total_steps) :
            /\ current_step_val' =
                  <<AfterButtons(clicked, AfterSlider(cur, slider_val), total_steps)>>
            /\ page' = IF LookupValid(current_step_val'[1], total_steps)
                       THEN "ok" ELSE "raised"

\* allocation_steps has returned to the script: the snapshots are kept in
\* the session, the step is reset to 1 and the script goes on to step 4
StoreRun ==
    /\ pc = "returned"
    /\ pc' = "idle"
    /\ session_snapshots' = <<snapshots>>
    /\ Visualise(1, Len(snapshots), "none")
    /\ UNCHANGED <<rng, df, capacity_dict, max_prefs, random_fallback, seed,
                   df_sorted, pref_cols, caps, assignments, snapshots, k,
                   repeated, prev_seed, prev_snapshots, gvars>>

\* a run of the script caused by a widget of step 4, which is on the page
\* only when the last run got that far
Rerun(clicked) ==
    /\ pc = "idle"
    /\ page = "ok"
    /\ session_snapshots # NoValue
    /\ Visualise(current_step_val[1], Len(session_snapshots[1]), clicked)
    /\ UNCHANGED <<pc, rng, df, capacity_dict, max_prefs, random_fallback, seed,
                   df_sorted, pref_cols, caps, assignments, snapshots, k,
                   repeated, prev_seed, prev_snapshots, gvars, session_snapshots>>

\* the user moves the slider
SliderMoved == Rerun("none")

\* the user clicks "Previous step"
PreviousStep == Rerun("Previous step")

\* the user clicks "Next step"
NextStep == Rerun("Next step")

\* the user clicks "Skip to final result"
SkipToFinal == Rerun("Skip to final result")

\* the user clicks "Back to start"
BackToStart == Rerun("Back to start")

\* a session of the app
NextApp ==
    RunClicked \/ Step \/ Return \/ StoreRun \/ SliderMoved \/ PreviousStep
        \/ NextStep \/ SkipToFinal \/ BackToStart

SpecApp == Init /\ [][NextApp]_vars

\* ------------------------------------------------------------- claims
\* the steps recorded so far, and the final snapshot
Steps == 1..Len(snapshots)

Final == snapshots[Len(snapshots)]

\* the remaining capacities step i started from
Before(i) == IF i = 1 THEN capacity_dict ELSE snapshots[i - 1].remaining

\* seats of category x in capacity map b (a category that is no key has none)
SeatsIn(b, x) == IF x \in DOMAIN b THEN b[x] ELSE 0

\* positions of step i's effective preference list whose category has seats
OpenRanks(i) ==
    {m \in 1..Len(snapshots[i].prefs) : SeatsIn(Before(i), snapshots[i].prefs[m]) > 0}

\* categories outside step i's effective preference list that have seats
OpenOutside(i) ==
    {x \in DOMAIN Before(i) : Before(i)[x] > 0 /\ x \notin Range(snapshots[i].prefs)}

\* the rows of the input whose entry in assignment map a is category x
StudentsIn(a, x) ==
    {i \in 1..Len(df.rows) : df.rows[i].id \in DOMAIN a /\ a[df.rows[i].id] = x}

\* the first position of category x in list l
RankIn(l, x) == CHOOSE m \in 1..Len(l) : l[m] = x /\ \A n \in 1..(m - 1) : l[n] # x

\* C1: capacity conservation: when a run has returned, for every category
\* initial capacity minus remaining capacity of the final snapshot is the
\* number of students whose entry in the final assignment map is that category
CapacityConservation ==
    (pc = "returned" /\ snapshots # <<>>) =>
        \A x \in DOMAIN capacity_dict :
            capacity_dict[x] - Final.remaining[x]
                = Cardinality(StudentsIn(Final.assignments, x))

\* a finished run in which one student took a seat by fallback and another
\* was left unassigned
CapacityConservationWitness ==
    /\ pc = "returned"
    /\ Len(snapshots) = 2
    /\ \E i \in Steps : snapshots[i].chosen \in OpenOutside(i)
    /\ \E i \in Steps : snapshots[i].chosen = None

\* C2: capacity is respected: with non-negative initial capacities, in every
\* snapshot every remaining capacity is >= 0 and no category holds more
\* students than its initial capacity
CapacityRespected ==
    (\A x \in DOMAIN capacity_dict : capacity_dict[x] >= 0) =>
        \A i \in Steps : \A x \in DOMAIN capacity_dict :
            /\ snapshots[i].remaining[x] >= 0
            /\ Cardinality(StudentsIn(snapshots[i].assignments, x)) <= capacity_dict[x]

\* a student whose first preference was full when they were processed, the
\* category having had seats at the start
CapacityRespectedWitness ==
    \E i \in Steps :
        /\ snapshots[i].prefs # <<>>
        /\ capacity_dict[snapshots[i].prefs[1]] > 0
        /\ Before(i)[snapshots[i].prefs[1]] = 0
        /\ snapshots[i].remaining[snapshots[i].prefs[1]] = 0
        /\ snapshots[i].chosen # snapshots[i].prefs[1]

\* C3: output guarantee: one snapshot per processed row, in processing order,
\* no student twice; a returned run has one snapshot per input student and its
\* final assignment map has exactly one entry per input student
OutputGuarantee ==
    /\ pc \in {"loop", "returned"} =>
          /\ Len(snapshots) = k
          /\ Len(df_sorted) = Len(df.rows)
          /\ \A r \in 1..Len(df.rows) :
                Cardinality({j \in 1..Len(df_sorted) : df_sorted[j] = df.rows[r]}) = 1
          /\ \A i \in Steps : i <= Len(df_sorted) /\ snapshots[i].student_id = df_sorted[i].id
          /\ \A i \in Steps :
                DOMAIN snapshots[i].assignments = {snapshots[j].student_id : j \in 1..i}
    /\ \A i, j \in Steps : i # j => snapshots[i].student_id # snapshots[j].student_id
    /\ pc = "returned" =>
          /\ Len(snapshots) = Len(df.rows)
          /\ snapshots # <<>> =>
                /\ DOMAIN Final.assignments = {df.rows[r].id : r \in 1..Len(df.rows)}
                /\ Cardinality(DOMAIN Final.assignments) = Len(df.rows)

\* a returned run over two students, one of them left unassigned
OutputGuaranteeWitness ==
    /\ pc = "returned"
    /\ Len(df.rows) = 2
    /\ \E i \in Steps : snapshots[i].chosen = None
    /\ \E i \in Steps : snapshots[i].chosen # None

\* C4: monotonic assignment map: every key of an earlier snapshot's assignment
\* map is a key of every later snapshot's map with the same value
MonotonicAssignments ==
    \A i, j \in Steps : i < j =>
        \A s \in DOMAIN snapshots[i].assignments :
            /\ s \in DOMAIN snapshots[j].assignments
            /\ snapshots[j].assignments[s] = snapshots[i].assignments[s]

\* two snapshots, the later one adding a different value for its student
MonotonicAssignmentsWitness ==
    /\ Len(snapshots) = 2
    /\ snapshots[1].chosen # snapshots[2].chosen
    /\ snapshots[1].chosen # None
    /\ snapshots[2].assignments[snapshots[1].student_id] = snapshots[1].chosen

\* C5: primary rule: a student with an open preference gets the earliest open
\* category of the list and only that category loses one seat; and of two
\* students with the same list the higher-score one is processed first and is
\* ranked at least as well by the outcome
PrimaryRule ==
    /\ \A i \in Steps :
          OpenRanks(i) # {} =>
              \E m \in OpenRanks(i) :
                  /\ \A n \in OpenRanks(i) : m <= n
                  /\ snapshots[i].chosen = snapshots[i].prefs[m]
                  /\ snapshots[i].remaining
                        = [Before(i) EXCEPT ![snapshots[i].prefs[m]] = @ - 1]
    /\ \A i, j \in Steps :
          (snapshots[i].prefs = snapshots[j].prefs /\ snapshots[i].gpa > snapshots[j].gpa) =>
              /\ i < j
              /\ snapshots[j].chosen \in Range(snapshots[j].prefs) =>
                    /\ snapshots[i].chosen \in Range(snapshots[i].prefs)
                    /\ RankIn(snapshots[i].prefs, snapshots[i].chosen)
                          <= RankIn(snapshots[j].prefs, snapshots[j].chosen)

\* the tests' case: two students with the same two preferences, given lower
\* score first; the higher score takes the first preference, the lower one the
\* second
PrimaryRuleWitness ==
    /\ Len(snapshots) = 2
    /\ df.rows[1].gpa < df.rows[2].gpa
    /\ Len(snapshots[1].prefs) = 2
    /\ snapshots[1].prefs = snapshots[2].prefs
    /\ snapshots[1].chosen = snapshots[1].prefs[1]
    /\ snapshots[2].chosen = snapshots[2].prefs[2]
    /\ snapshots[2].student_id = df.rows[1].id

\* C6: fallback: with fallback enabled, a student without an open preference,
\* while a category outside the list has seats, gets one such category and
\* that category loses one seat; a category outside the list is only ever
\* chosen when no preference is open
FallbackRule ==
    /\ random_fallback =>
          \A i \in Steps :
              (OpenRanks(i) = {} /\ OpenOutside(i) # {}) =>
                  /\ snapshots[i].chosen \in OpenOutside(i)
                  /\ snapshots[i].remaining
                        = [Before(i) EXCEPT ![snapshots[i].chosen] = @ - 1]
    /\ \A i \in Steps :
          (snapshots[i].chosen # None /\ snapshots[i].chosen \notin Range(snapshots[i].prefs))
              => OpenRanks(i) = {}

\* a student whose two preferred categories filled during the run and who
\* got a category outside the list
FallbackRuleWitness ==
    /\ random_fallback
    /\ \E i \in Steps :
          /\ i > 1
          /\ Len(snapshots[i].prefs) = 2
          /\ \E m \in 1..2 : capacity_dict[snapshots[i].prefs[m]] > 0
          /\ OpenRanks(i) = {}
          /\ snapshots[i].chosen \in OpenOutside(i)

\* C7: an unassigned step leaves the capacities unchanged: without an open
\* preference, and with fallback disabled or no open category outside the
\* list, chosen is none, the student's entry is none and the remaining
\* capacities are those the step started from
UnassignedFrame ==
    \A i \in Steps :
        (OpenRanks(i) = {} /\ (~random_fallback \/ OpenOutside(i) = {})) =>
            /\ snapshots[i].chosen = None
            /\ snapshots[i].student_id \in DOMAIN snapshots[i].assignments
            /\ snapshots[i].assignments[snapshots[i].student_id] = None
            /\ snapshots[i].remaining = Before(i)

\* fallback disabled: a student with a preference list is left unassigned
\* while a category outside the list has seats
UnassignedFrameWitness ==
    /\ ~random_fallback
    /\ \E i \in Steps :
          /\ snapshots[i].prefs # <<>>
          /\ OpenRanks(i) = {}
          /\ OpenOutside(i) # {}
          /\ snapshots[i].chosen = None

\* C8: processing order: the scores of the snapshot sequence never increase
ProcessingOrder ==
    \A i, j \in Steps : i < j => snapshots[i].gpa >= snapshots[j].gpa

\* a returned run whose input listed the lower score first
ProcessingOrderWitness ==
    /\ pc = "returned"
    /\ Len(df.rows) = 2
    /\ df.rows[1].gpa < df.rows[2].gpa
    /\ snapshots[1].student_id = df.rows[2].id

\* whether the step recorded in snapshot s took a category by fallback
ByFallback(s) == s.chosen # None /\ s.chosen \notin Range(s.prefs)

\* C9: determinism: a second run on the same population, capacities and
\* options returns the first run's snapshot sequence when both runs got the
\* same explicit seed, and for any seeds when no student of the first run
\* was assigned by fallback
Determinism ==
    (pc = "returned" /\ repeated) =>
        /\ (seed # NoSeed /\ seed = prev_seed) => snapshots = prev_snapshots
        /\ (\A i \in 1..Len(prev_snapshots) : ~ByFallback(prev_snapshots[i]))
              => snapshots = prev_snapshots

\* two returned runs with the same explicit seed in which a student drew a
\* fallback category among several open ones
DeterminismWitness ==
    /\ pc = "returned"
    /\ repeated
    /\ seed # NoSeed
    /\ seed = prev_seed
    /\ \E i \in Steps : ByFallback(snapshots[i]) /\ Cardinality(OpenOutside(i)) >= 2

\* C10: input validation: a population without the id or the gpa column makes
\* the call fail at once with no snapshot; a call either fails before any
\* snapshot or returns one snapshot per row
InputValidation ==
    /\ (pc # "idle" /\ ("id" \notin Range(df.columns) \/ "gpa" \notin Range(df.columns)))
          => (pc = "raised" /\ snapshots = <<>> /\ k = 0)
    /\ pc = "raised" =>
          /\ "id" \notin Range(df.columns) \/ "gpa" \notin Range(df.columns)
          /\ snapshots = <<>>
    /\ pc = "returned" => Len(snapshots) = Len(df.rows)

\* a failed call on a non-empty population that has scores but no ids
InputValidationWitness ==
    /\ pc = "raised"
    /\ Len(df.rows) > 0
    /\ "id" \notin Range(df.columns)
    /\ "gpa" \in Range(df.columns)

\* the column that declares the preference of rank r
RankColumns == <<"pref1", "pref2", "pref3">>

\* the rank a preference column declares; 999 when its suffix is no rank
ColumnKey(c) ==
    IF \E r \in 1..Len(RankColumns) : RankColumns[r] = c
    THEN CHOOSE r \in 1..Len(RankColumns) : RankColumns[r] = c
    ELSE 999

\* the values of a sequence of cells that are not missing
Present(cells) == SelectSeq(cells, LAMBDA v : v # NaN)

\* the declared preferences of ranks 1..mp of a row, by increasing rank,
\* without the missing ones
DeclaredPrefs(row, mp) ==
    Present([r \in 1..Min(mp, Len(RankColumns)) |->
                IF RankColumns[r] \in DOMAIN row THEN row[RankColumns[r]] ELSE NaN])

\* the columns of the frame other than id and gpa (all are named pref...)
PrefNamed == Range(df.columns) \ {"id", "gpa"}

\* the orders of the frame's preference columns by non-decreasing key
KeyOrders ==
    {o \in [1..Cardinality(PrefNamed) -> PrefNamed] :
        /\ \A c \in PrefNamed : \E j \in DOMAIN o : o[j] = c
        /\ \A j \in 1..(Cardinality(PrefNamed) - 1) : ColumnKey(o[j]) <= ColumnKey(o[j + 1])}

\* C11 as stated: the effective preference list of every step is the declared
\* preferences of ranks 1..max_prefs in increasing rank order without the
\* missing ones, so that neither a rank above max_prefs nor a column whose
\* suffix is no rank is ever used.
EffectivePrefsByRank ==
    \A i \in Steps : snapshots[i].prefs = DeclaredPrefs(df_sorted[i], max_prefs)

\* C11: the effective preference list of every step is the non-missing cells
\* of the first max_prefs preference columns, the columns named pref... being
\* taken by increasing numeric suffix with a non-numeric suffix last (key
\* 999); when the columns are exactly those of ranks 1..N this is the declared
\* preferences of ranks 1..min(N, max_prefs).
EffectivePrefsByColumn ==
    /\ \A i \in Steps :
          \E o \in KeyOrders :
             snapshots[i].prefs =
                Present([j \in 1..Min(max_prefs, Len(o)) |-> df_sorted[i][o[j]]])
    /\ (PrefNamed = {"pref1", "pref2"}) =>
          \A i \in Steps : snapshots[i].prefs = DeclaredPrefs(df_sorted[i], max_prefs)

\* a frame with the columns pref1 and prefX and max_prefs = 2: the cell of
\* prefX is the second effective preference of a student and is chosen
EffectivePrefsByColumnWitness ==
    /\ pc = "returned"
    /\ max_prefs = 2
    /\ "prefX" \in Range(df.columns)
    /\ \E i \in Steps :
          /\ snapshots[i].prefs = <<"Software", "Mechanical">>
          /\ df_sorted[i]["prefX"] = "Mechanical"
          /\ snapshots[i].chosen = "Mechanical"

\* the students of the first j processed rows
FirstIds(j) == {df_sorted[i].id : i \in 1..j}

\* snapshot j shows the assignments of exactly the first j students and the
\* capacities left by the first j steps
ShowsPrefix(j) ==
    /\ DOMAIN snapshots[j].assignments = FirstIds(j)
    /\ \A i \in 1..j : snapshots[j].assignments[df_sorted[i].id] = snapshots[i].chosen
    /\ DOMAIN snapshots[j].remaining = DOMAIN capacity_dict
    /\ \A x \in DOMAIN capacity_dict :
          snapshots[j].remaining[x] =
             capacity_dict[x] - Cardinality({i \in 1..j : snapshots[i].chosen = x})

AllShowPrefix == \A j \in Steps : ShowsPrefix(j)

\* C12: snapshot immutability: no step changes a snapshot recorded before it,
\* and after every step snapshot j shows exactly the assignments of the first
\* j students and the capacities after j steps.
SnapshotImmutability ==
    [][/\ \A i \in 1..Len(snapshots) :
             i <= Len(snapshots') /\ snapshots'[i] = snapshots[i]
       /\ AllShowPrefix']_vars

\* a returned run whose second step changed both the capacities and the
\* assignment map the first snapshot had recorded
SnapshotImmutabilityWitness ==
    /\ pc = "returned"
    /\ Len(snapshots) >= 2
    /\ snapshots[2].remaining # snapshots[1].remaining
    /\ snapshots[2].chosen # None
    /\ DOMAIN snapshots[1].assignments # DOMAIN snapshots[2].assignments
    /\ ShowsPrefix(1)

\* C13: unknown categories are not errors: a preferred category that is no
\* key of the capacity dict raises nothing, is never chosen and is skipped in
\* favour of the next preference, and adds no key to the remaining map.
UnknownCategories ==
    /\ pc # "raised"
    /\ \A i \in Steps :
          /\ snapshots[i].chosen \in DOMAIN capacity_dict \cup {None}
          /\ DOMAIN snapshots[i].remaining = DOMAIN capacity_dict
          /\ (/\ Len(snapshots[i].prefs) = 2
              /\ snapshots[i].prefs[1] \notin DOMAIN capacity_dict
              /\ SeatsIn(Before(i), snapshots[i].prefs[2]) > 0)
             => snapshots[i].chosen = snapshots[i].prefs[2]

\* a student whose first preference is unknown got the second one
UnknownCategoriesWitness ==
    /\ pc = "returned"
    /\ \E i \in Steps :
          /\ snapshots[i].prefs = <<"Unknown", "Software">>
          /\ snapshots[i].chosen = "Software"

\* C14: negative capacities are tolerated: a category whose initial capacity
\* is zero or negative is never chosen, by preference or by fallback, and
\* keeps its initial value in every snapshot.
NegativeCapacity ==
    \A x \in DOMAIN capacity_dict :
       capacity_dict[x] <= 0 =>
          \A i \in Steps :
             snapshots[i].chosen # x /\ snapshots[i].remaining[x] = capacity_dict[x]

\* Software starts at -1; a student who prefers it, and one who falls back
\* while it is neither preferred nor full, got other categories
NegativeCapacityWitness ==
    /\ pc = "returned"
    /\ capacity_dict["Software"] = -1
    /\ \E i, j \in Steps :
          /\ snapshots[i].prefs[1] = "Software"
          /\ snapshots[j].prefs = <<"Mechanical">>
          /\ snapshots[j].chosen = "EngSci"
          /\ snapshots[j].remaining["Software"] = -1

\* the multiples of 1000 nearest to num / den (both neighbours of a quotient
\* exactly half way)
NearestMilli(num, den) ==
    LET q == num \div (1000 * den)
        below == num - 1000 * den * q
        above == 1000 * den * (q + 1) - num
    IN {1000 * c : c \in {x \in {q, q + 1} :
                             IF x = q THEN below <= above ELSE above <= below}}

\* round(gpa_min + i * step, 3), step = (gpa_max - gpa_min) / 63, i = 0..63:
\* the grid the tests compare the scores with
ExpectedGrid ==
    UNION {NearestMilli((GridLevels - 1) * gpa_min + i * (gpa_max - gpa_min),
                        GridLevels - 1) : i \in 0..(GridLevels - 1)}

\* C15 as stated: grid membership: every score of a generated record equals
\* round(min + i * (max - min) / 63, 3) for some i in 0..63, the rounding to
\* 6 and then to 3 decimals agreeing with the rounding to 3 decimals.
GridMembership == \A i \in DOMAIN rows : rows[i].gpa \in ExpectedGrid

\* gpa_min = 0.00391, gpa_max = 9.0: level 2 is 0.2895002, kept as 0.2895
\* and returned as 0.289, while the grid of the tests holds 0.29
GridMembershipWitness ==
    /\ gpc = "returned"
    /\ gpa_min = 3910
    /\ gpa_max = 9000000
    /\ generated[1].gpa = 289000
    /\ 290000 \in ExpectedGrid
    /\ 289000 \notin ExpectedGrid

Occurrences(q, v) == Cardinality({i \in DOMAIN q : q[i] = v})

\* the first m entries of sequence q
FirstOf(q, m) == [i \in 1..Min(m, Len(q)) |-> q[i]]

\* C16 as stated: sampling without replacement never fails; once the scores
\* are drawn there are exactly n_students of them; with n_students <= number
\* of levels they are pairwise distinct; with more students every level
\* occurs exactly once among the first scores, one per level, and the extras
\* are grid levels.
WithoutReplacement ==
    (~sampling_with_replacement /\ gpc # "idle") =>
        /\ gpc # "raised"
        /\ gpc \in {"rows", "returned"} =>
              /\ Len(gpas) = n_students
              /\ \A i \in DOMAIN gpas : gpas[i] \in Range(allowed_gpas)
              /\ n_students <= Len(allowed_gpas) =>
                    \A i, j \in DOMAIN gpas : i # j => gpas[i] # gpas[j]
              /\ n_students > Len(allowed_gpas) =>
                    \A v \in Range(allowed_gpas) :
                        Occurrences(FirstOf(gpas, Len(allowed_gpas)), v) = 1

\* gpa_min = 9.0 > gpa_max = 4.0 without replacement: the grid is empty, the
\* first pop finds no quotient and the call fails with IndexError
WithoutReplacementWitness ==
    /\ gpc = "raised"
    /\ ~sampling_with_replacement
    /\ gpa_min > gpa_max
    /\ choice_probs = <<>>
    /\ rows = <<>>

\* C17: replacement duplicates: in with-replacement mode, once the scores are
\* drawn there are n_students of them, each a level of the full grid that has
\* a positive weight, no level having been removed; when one level holds the
\* whole weight every student receives that level.
ReplacementDuplicates ==
    (sampling_with_replacement /\ gpc \in {"rows", "returned"}) =>
        /\ Len(gpas) = n_students
        /\ Len(allowed_gpas) = Len(probs)
        /\ choices = <<>>
        /\ \A i \in DOMAIN gpas :
              \E j \in DOMAIN allowed_gpas :
                  gpas[i] = allowed_gpas[j] /\ probs[j].num > 0
        /\ \A j \in DOMAIN probs :
              probs[j].num = probs[j].den =>
                  \A i \in DOMAIN gpas : gpas[i] = allowed_gpas[j]

\* the tests' case scaled: std 1e-6 centred on the minimum 0.0 of the range
\* 0..9, fewer students than levels, and all of them receive 0.0
ReplacementDuplicatesWitness ==
    /\ gpc = "returned"
    /\ sampling_with_replacement
    /\ mean = 0
    /\ std = 1
    /\ n_students >= 2
    /\ n_students < Len(allowed_gpas)
    /\ probs[1].num = probs[1].den
    /\ \A i \in DOMAIN generated : generated[i].gpa = 0

\* the length the claim requires: min(requested count, number of categories)
RequiredLength == IF n_prefs < Len(specs) THEN n_prefs ELSE Len(specs)

\* C18: preference list shape: without weights, with weights and with
\* weights that sum to <= 0, the preference list of every generated student
\* has length min(n_prefs, len(specs)), names only supplied categories and
\* names none twice.
PreferenceShape ==
    \A i \in DOMAIN rows :
        /\ Len(rows[i].prefs) = RequiredLength
        /\ \A m \in DOMAIN rows[i].prefs :
              \E x \in DOMAIN specs : rows[i].prefs[m] = specs[x]
        /\ \A m, n \in DOMAIN rows[i].prefs :
              m # n => rows[i].prefs[m] # rows[i].prefs[n]

\* five preferences requested over three categories with weights 2, 1, 0:
\* a student whose list of three ends with the category of weight 0
PreferenceShapeWitness ==
    /\ gpc = "returned"
    /\ n_prefs = 5
    /\ Len(specs) = 3
    /\ pref_weights # NoValue
    /\ "Software" \in DOMAIN pref_weights[1]
    /\ pref_weights[1]["Software"] = 2
    /\ \E i \in DOMAIN generated :
          /\ Len(generated[i].prefs) = 3
          /\ generated[i].prefs[3] = "EngSci"

\* the records of the returned frame that carry id x
WithId(x) == {i \in DOMAIN generated : generated[i].id = x}

\* C19: sampler output contract: a returned population has exactly
\* n_students records, sorted by score descending, whose ids are exactly
\* 1..n_students, one record each; the record with id k carries the k-th
\* drawn score (to 3 decimals) and the k-th drawn preference list.
OutputContract ==
    gpc = "returned" =>
        /\ Len(generated) = n_students
        /\ \A i, j \in DOMAIN generated : i < j => generated[i].gpa >= generated[j].gpa
        /\ \A x \in 1..n_students : Cardinality(WithId(x)) = 1
        /\ \A i \in DOMAIN generated :
              /\ generated[i].id \in 1..n_students
              /\ generated[i].id \in DOMAIN gpas
              /\ generated[i].gpa \in NearestMilli(gpas[generated[i].id], 1)
              /\ generated[i].id \in DOMAIN rows
              /\ generated[i].prefs = rows[generated[i].id].prefs

\* more students than levels without replacement: the first drawn score is
\* lower than a later one, so the returned order differs from the order of
\* generation
OutputContractWitness ==
    /\ gpc = "returned"
    /\ n_students >= 2
    /\ gpas[1] < gpas[2]
    /\ generated[1].id = 2
    /\ generated[1].gpa > generated[2].gpa

\* the positions of step i's effective preference list that rank above the
\* student's outcome: those before the chosen category, or all of them when
\* the student got a category outside the list or none
RanksAboveOutcome(i) ==
    {m \in 1..Len(snapshots[i].prefs) :
        snapshots[i].chosen \in Range(snapshots[i].prefs)
            => m < RankIn(snapshots[i].prefs, snapshots[i].chosen)}

\* C21: no justified envy: in the final outcome of a returned run, whoever
\* holds a category that student s ranks above their own outcome was
\* processed before s and has a score >= the score of s.
NoJustifiedEnvy ==
    (pc = "returned" /\ snapshots # <<>>) =>
        \A i \in Steps : \A m \in RanksAboveOutcome(i) : \A j \in Steps :
            Final.assignments[snapshots[j].student_id] = snapshots[i].prefs[m]
                => (j < i /\ snapshots[j].gpa >= snapshots[i].gpa)

\* a returned run in which the second student ranks first the category the
\* first student holds, and got their second preference
NoJustifiedEnvyWitness ==
    /\ pc = "returned"
    /\ Len(snapshots) = 2
    /\ Len(snapshots[2].prefs) = 2
    /\ snapshots[2].chosen = snapshots[2].prefs[2]
    /\ Final.assignments[snapshots[1].student_id] = snapshots[2].prefs[1]
    /\ snapshots[1].gpa > snapshots[2].gpa

\* the capacities a run started from, read off its first snapshot: the
\* remaining capacities with the seat of the first student given back
StartOf(snaps) ==
    IF snaps[1].chosen = None THEN snaps[1].remaining
    ELSE [snaps[1].remaining EXCEPT ![snaps[1].chosen] = @ + 1]

\* C22: the caller's capacity map is not mutated: no step of a call, its
\* return or its failure changes the keys or values of the map passed in,
\* and a second run on the same map starts from the capacities the first
\* run started from.
CallerCapacitiesKept ==
    [][/\ pc # "idle" => capacity_dict' = capacity_dict
       /\ (repeated' /\ snapshots' # <<>>) =>
             /\ StartOf(snapshots') = capacity_dict'
             /\ StartOf(prev_snapshots') = StartOf(snapshots')]_vars

\* a second run on the map of a first run that had allocated a seat: it
\* allocates the same seat again
CallerCapacitiesKeptWitness ==
    /\ pc = "returned"
    /\ repeated
    /\ prev_snapshots # <<>>
    /\ prev_snapshots[1].chosen # None
    /\ capacity_dict[prev_snapshots[1].chosen] = 1
    /\ snapshots[1].chosen = prev_snapshots[1].chosen
    /\ snapshots[1].remaining[snapshots[1].chosen] = 0

\* C23: exhaustion is permanent: with fallback enabled, a student is left
\* unassigned only when every category of the capacity map has remaining
\* capacity <= 0 at that step; every student processed afterwards is also
\* unassigned and the remaining capacities stay as they are.
ExhaustionPermanent ==
    random_fallback =>
        \A i \in Steps :
            snapshots[i].chosen = None =>
                /\ \A x \in DOMAIN Before(i) : Before(i)[x] <= 0
                /\ \A j \in Steps :
                      j > i => /\ snapshots[j].chosen = None
                               /\ snapshots[j].remaining = snapshots[i].remaining

\* fallback enabled: a student with preferences is left unassigned, and so
\* is the student with preferences processed after them
ExhaustionPermanentWitness ==
    /\ random_fallback
    /\ pc = "returned"
    /\ Len(snapshots) = 2
    /\ snapshots[1].prefs # <<>>
    /\ snapshots[1].chosen = None
    /\ snapshots[2].prefs # <<>>
    /\ snapshots[2].chosen = None
    /\ snapshots[2].remaining = capacity_dict

\* the popularity weight of category x: its entry of the weight map, 0 when
\* it has none
WeightOf(x) ==
    IF x \in DOMAIN pref_weights[1] THEN pref_weights[1][x] ELSE 0

\* C24 as stated: zero-weight categories rank last: in weighted mode with a
\* positive weight, a generated preference list names a category of weight
\* 0 only at ranks where every supplied category of positive weight has
\* been named before, whatever the uniform draws were (0 included).
ZeroWeightLast ==
    (pref_weights # NoValue /\ \E x \in Range(specs) : WeightOf(x) > 0) =>
        \A i \in DOMAIN rows : \A m \in DOMAIN rows[i].prefs :
            WeightOf(rows[i].prefs[m]) = 0 =>
                \A x \in Range(specs) :
                    WeightOf(x) > 0 => \E n \in 1..(m - 1) : rows[i].prefs[n] = x

\* weights Mechanical 1, none for Software and EngSci: a returned student
\* whose first preference is Software, ranked above Mechanical
ZeroWeightLastWitness ==
    /\ gpc = "returned"
    /\ specs = SpecOrder
    /\ pref_weights # NoValue
    /\ WeightOf("Software") = 0
    /\ WeightOf("Mechanical") = 1
    /\ \E i \in DOMAIN generated :
          /\ generated[i].prefs[1] = "Software"
          /\ generated[i].prefs[2] = "Mechanical"

\* C25 as stated: step navigation stays in range: whenever the session holds
\* a snapshot sequence, 1 <= current_step_val <= number of snapshots and the
\* page was built without an exception.
StepInRange ==
    session_snapshots # NoValue =>
        /\ current_step_val # NoValue
        /\ 1 <= current_step_val[1]
        /\ current_step_val[1] <= Len(session_snapshots[1])
        /\ page = "ok"

\* a run on an uploaded file that holds the header line only: the session
\* holds an empty snapshot sequence and step 1, and the page failed
StepInRangeWitness ==
    /\ session_snapshots = <<<<>>>>
    /\ current_step_val = <<1>>
    /\ page = "raised"
    /\ df.rows = <<>>

====
